---- MODULE Spec2Model ----
(***************************************************************************)
(* Model of src/Common/DataObjects/Pitch.ts: the Pitch value object, its   *)
(* halftone / accidental tables, diatonic stepping, transposition,         *)
(* enharmonic respelling and comparison operators.                         *)
(*                                                                         *)
(* Number representation.  JavaScript numbers that carry a fractional      *)
(* accidental delta (halfTone, the accidental deltas, the value wrapped by *)
(* WrapAroundCheck inside CalculateTransposedHalfTone) are kept in fixed   *)
(* point, in units of 1/Scale halftone, so that 0.0013 is 13 and -0.51 is  *)
(* -5100.  Letter values, octaves, indices, factors and line counts are    *)
(* plain integers.  The JavaScript values undefined and NaN are the two    *)
(* reserved integers below, outside every numeric range the model reaches. *)
(***************************************************************************)
EXTENDS Integers, Sequences, FiniteSets, TLC

VARIABLES heap, ret

vars == <<heap, ret>>

\* ------------------------------------------------------------------ bounds
MaxOctave == 1
OctaveCap == 6
MaxFactor == 13
MaxHalftone == 14
MaxRound == 6
MaxLines == 8
MaxValue == 25
MaxTranspose == 12

\* --------------------------------------------------------------- constants
Scale == 10000
undefined == 99999999
NaN == 88888888
NullRef == 0
octXmlDiff == 3

Octaves == 0..MaxOctave
Factors == (0 - MaxFactor)..MaxFactor
Halftones == (0 - MaxHalftone)..MaxHalftone
RoundInputs == (0 - MaxRound)..MaxRound
Lines == (0 - MaxLines)..MaxLines
Values == (0 - MaxValue)..MaxValue
Transposes == (0 - MaxTranspose)..MaxTranspose
NoHint == "undefined"
Hints == {NoHint, "sharp"}
CmpAccidentals ==
    {"NONE", "NATURAL", "SHARP", "FLAT", "DOUBLESHARP", "DOUBLEFLAT", "QUARTERTONEFLAT", "KORON"}

\* ------------------------------------------------------------ enumerations
NoteEnum == {0, 2, 4, 5, 7, 9, 11}

AccidentalEnum ==
    {"SHARP", "FLAT", "NONE", "NATURAL", "DOUBLESHARP", "DOUBLEFLAT",
     "TRIPLESHARP", "TRIPLEFLAT", "QUARTERTONESHARP", "QUARTERTONEFLAT",
     "SLASHFLAT", "THREEQUARTERSSHARP", "THREEQUARTERSFLAT",
     "SLASHQUARTERSHARP", "SLASHSHARP", "DOUBLESLASHFLAT", "SORI", "KORON"}

pitchEnumValues == <<0, 2, 4, 5, 7, 9, 11>>

\* ------------------------------------------------- JavaScript number helpers
\* Array.prototype.indexOf on pitchEnumValues: 0-based index, or -1.
IndexOf(note) ==
    IF \E k \in 1..Len(pitchEnumValues) : pitchEnumValues[k] = note
    THEN (CHOOSE k \in 1..Len(pitchEnumValues) : pitchEnumValues[k] = note) - 1
    ELSE 0 - 1

\* pitchEnumValues[i] with a 0-based index: out of range reads undefined.
EnumAt(i) ==
    IF i \in 0..(Len(pitchEnumValues) - 1) THEN pitchEnumValues[i + 1] ELSE undefined

\* The % operator: the remainder takes the sign of the dividend.
JsMod(a, b) == IF a >= 0 THEN a % b ELSE 0 - ((0 - a) % b)

\* ToNumber(undefined) is NaN, and NaN absorbs every addition.
ToNumber(x) == IF x = undefined THEN NaN ELSE x

NumPlus(a, b) ==
    IF ToNumber(a) = NaN \/ ToNumber(b) = NaN THEN NaN ELSE a + b

NumTimes(a, k) == IF ToNumber(a) = NaN THEN NaN ELSE a * k

\* a > b and a < b: false as soon as one side is undefined or NaN.
NumGt(a, b) ==
    IF ToNumber(a) = NaN \/ ToNumber(b) = NaN THEN FALSE ELSE a > b

NumLt(a, b) ==
    IF ToNumber(a) = NaN \/ ToNumber(b) = NaN THEN FALSE ELSE a < b

NumGe(a, b) ==
    IF ToNumber(a) = NaN \/ ToNumber(b) = NaN THEN FALSE ELSE a >= b

\* ---------------------------------------------------------- accidental table
\* HalfTonesFromAccidental, in units of 1/Scale halftone.
HalfTonesFromAccidental(accidental) ==
    CASE accidental = "NONE" -> 0
      [] accidental = "SHARP" -> Scale
      [] accidental = "FLAT" -> 0 - Scale
      [] accidental = "NATURAL" -> 0
      [] accidental = "DOUBLESHARP" -> 2 * Scale
      [] accidental = "DOUBLEFLAT" -> 0 - 2 * Scale
      [] accidental = "TRIPLESHARP" -> 3 * Scale
      [] accidental = "TRIPLEFLAT" -> 0 - 3 * Scale
      [] accidental = "QUARTERTONESHARP" -> 5000
      [] accidental = "QUARTERTONEFLAT" -> 0 - 5000
      [] accidental = "SLASHFLAT" -> 0 - 5100
      [] accidental = "THREEQUARTERSSHARP" -> 15000
      [] accidental = "THREEQUARTERSFLAT" -> 0 - 15000
      [] accidental = "SLASHQUARTERSHARP" -> 13
      [] accidental = "SLASHSHARP" -> 14
      [] accidental = "DOUBLESLASHFLAT" -> 0 - 15
      [] accidental = "SORI" -> 16
      [] accidental = "KORON" -> 17

\* AccidentalFromHalfTones with the THREEQUARTERSSHARP case dropped.
AccidentalFromHalfTonesNoThreeQuarters(halfTones) ==
    CASE halfTones = 0 -> "NONE"
      [] halfTones = Scale -> "SHARP"
      [] halfTones = 0 - Scale -> "FLAT"
      [] halfTones = 2 * Scale -> "DOUBLESHARP"
      [] halfTones = 0 - 2 * Scale -> "DOUBLEFLAT"
      [] halfTones = 3 * Scale -> "TRIPLESHARP"
      [] halfTones = 0 - 3 * Scale -> "TRIPLEFLAT"
      [] halfTones = 5000 -> "QUARTERTONESHARP"
      [] halfTones = 0 - 5000 -> "QUARTERTONEFLAT"
      [] halfTones = 0 - 15000 -> "THREEQUARTERSFLAT"
      [] OTHER ->
            IF NumGt(halfTones, 0) /\ NumLt(halfTones, Scale) THEN "QUARTERTONESHARP"
            ELSE IF NumLt(halfTones, 0) /\ NumGt(halfTones, 0 - Scale) THEN "QUARTERTONEFLAT"
            ELSE "QUARTERTONESHARP"

\* AccidentalFromHalfTones, on a delta in units of 1/Scale halftone.
AccidentalFromHalfTones(halfTones) ==
    CASE halfTones = 0 -> "NONE"
      [] halfTones = Scale -> "SHARP"
      [] halfTones = 0 - Scale -> "FLAT"
      [] halfTones = 2 * Scale -> "DOUBLESHARP"
      [] halfTones = 0 - 2 * Scale -> "DOUBLEFLAT"
      [] halfTones = 3 * Scale -> "TRIPLESHARP"
      [] halfTones = 0 - 3 * Scale -> "TRIPLEFLAT"
      [] halfTones = 5000 -> "QUARTERTONESHARP"
      [] halfTones = 0 - 5000 -> "QUARTERTONEFLAT"
      [] halfTones = 15000 -> "THREEQUARTERSSHARP"
      [] halfTones = 0 - 15000 -> "THREEQUARTERSFLAT"
      [] OTHER ->
            IF NumGt(halfTones, 0) /\ NumLt(halfTones, Scale) THEN "QUARTERTONESHARP"
            ELSE IF NumLt(halfTones, 0) /\ NumGt(halfTones, 0 - Scale) THEN "QUARTERTONEFLAT"
            ELSE "QUARTERTONESHARP"

\* ------------------------------------------------------- diatonic stepping
\* lineShiftFromNoteEnum: <<new NoteEnum, octave shift>>.
lineShiftFromNoteEnum(noteEnum, lines) ==
    IF lines = 0 THEN <<noteEnum, 0>>
    ELSE LET length == Len(pitchEnumValues)
             originalIndex == IndexOf(noteEnum)
             modIndex == JsMod(originalIndex + lines, length)
             shiftUp == IF originalIndex + lines > length - 1 THEN 1 ELSE 0
             newIndex == IF modIndex < 0 THEN length + modIndex ELSE modIndex
             octaveShift == IF modIndex < 0 THEN 0 - 1 ELSE shiftUp
         IN  <<EnumAt(newIndex), octaveShift>>

\* ------------------------------------------------------------ wrap-around
RECURSIVE WhileNegative(_, _, _)
\* First loop of WrapAroundCheck: while (value < 0) { value += limit; overflow--; }
WhileNegative(value, limit, overflow) ==
    IF NumLt(value, 0)
    THEN WhileNegative(value + limit, limit, overflow - 1)
    ELSE [halftone |-> value, overflow |-> overflow]

RECURSIVE WhileAtLeastLimit(_, _, _)
\* Second loop: while (value >= limit) { value -= limit; overflow++; }
WhileAtLeastLimit(value, limit, overflow) ==
    IF NumGe(value, limit)
    THEN WhileAtLeastLimit(value - limit, limit, overflow + 1)
    ELSE [halftone |-> value, overflow |-> overflow]

RECURSIVE WhileAboveLimit(_, _, _)
\* The second loop with > in place of >=.
WhileAboveLimit(value, limit, overflow) ==
    IF NumGt(value, limit)
    THEN WhileAboveLimit(value - limit, limit, overflow + 1)
    ELSE [halftone |-> value, overflow |-> overflow]

\* WrapAroundCheck whose second loop stops one step early at value = limit.
WrapAroundCheckOffByOne(value, limit) ==
    LET neg == WhileNegative(value, limit, 0)
    IN  WhileAboveLimit(neg.halftone, limit, neg.overflow)

\* WrapAroundCheck(value, limit): {halftone, overflow}.
WrapAroundCheck(value, limit) ==
    LET neg == WhileNegative(value, limit, 0)
    IN  WhileAtLeastLimit(neg.halftone, limit, neg.overflow)

\* CalculateTransposedHalfTone; halftone is in units of 1/Scale halftone.
CalculateTransposedHalfTone(pitch, transpose) ==
    LET newHalfTone == NumPlus(NumPlus(NumTimes(pitch.fundamentalNote, Scale),
                                       HalfTonesFromAccidental(pitch.accidental)),
                               transpose * Scale)
    IN  WrapAroundCheck(newHalfTone, 12 * Scale)

\* ------------------------------------------------------------- construction
\* calcFrequency(pitch) = 440 * 2^(octaveSteps) * 2^(halfToneSteps / 12).  The
\* frequency is held as its exponent 12 * octaveSteps + halfToneSteps in units
\* of 1/Scale halftone above A440; 2^x is strictly increasing.
calcFrequency(fundamentalNote, octave, accidental) ==
    LET octaveSteps == octave - 1
        halfToneSteps == NumPlus(NumTimes(NumPlus(fundamentalNote, 0 - 9), Scale),
                                 HalfTonesFromAccidental(accidental))
    IN  NumPlus(halfToneSteps, octaveSteps * 12 * Scale)

\* new Pitch(fundamentalNote, octave, accidental, accidentalXml)
NewPitch(fundamentalNote, octave, accidental, accidentalXml) ==
    [fundamentalNote |-> fundamentalNote,
     octave |-> octave,
     accidental |-> accidental,
     accidentalXml |-> accidentalXml,
     halfTone |-> NumPlus(NumTimes(NumPlus(fundamentalNote, (octave + octXmlDiff) * 12), Scale),
                          HalfTonesFromAccidental(accidental)),
     frequency |-> calcFrequency(fundamentalNote, octave, accidental)]

\* fromHalftone(halftone)
fromHalftone(halftone) ==
    LET octave == (halftone \div 12) - octXmlDiff
        halftoneInOctave == JsMod(halftone, 12)
    IN  IF IndexOf(halftoneInOctave) = 0 - 1
        THEN NewPitch(halftoneInOctave - 1, octave, "SHARP", NoHint)
        ELSE NewPitch(halftoneInOctave, octave, "NONE", NoHint)

\* ceiling(halftone)
ceiling(halftone) ==
    LET h == JsMod(halftone, 12)
    IN  IF IndexOf(h) = 0 - 1 THEN h + 1 ELSE h

\* floor(halftone)
floor(halftone) ==
    LET h == JsMod(halftone, 12)
    IN  IF IndexOf(h) = 0 - 1 THEN h - 1 ELSE h

\* ------------------------------------------------------------ transposition
getHigherPitchByTransposeFactor(this, factor) ==
    LET noteEnumIndex == IndexOf(this.fundamentalNote)
        length == Len(pitchEnumValues)
    IN  IF noteEnumIndex + factor > length - 1
        THEN NewPitch(EnumAt(noteEnumIndex + factor - length), this.octave + 1, "NONE", NoHint)
        ELSE NewPitch(EnumAt(noteEnumIndex + factor), this.octave, "NONE", NoHint)

getLowerPitchByTransposeFactor(this, factor) ==
    LET noteEnumIndex == IndexOf(this.fundamentalNote)
        length == Len(pitchEnumValues)
    IN  IF noteEnumIndex - factor < 0
        THEN NewPitch(EnumAt(length + noteEnumIndex - factor), this.octave - 1, "NONE", NoHint)
        ELSE NewPitch(EnumAt(noteEnumIndex - factor), this.octave, "NONE", NoHint)

\* getTransposedPitch(factor): threw, or the returned pitch; same tells that
\* the returned reference is this object itself.
getTransposedPitch(this, factor) ==
    IF factor > 12 THEN [threw |-> TRUE, same |-> FALSE, pitch |-> this]
    ELSE IF factor > 0
         THEN [threw |-> FALSE, same |-> FALSE,
               pitch |-> getHigherPitchByTransposeFactor(this, factor)]
    ELSE IF factor < 0
         THEN [threw |-> FALSE, same |-> FALSE,
               pitch |-> getLowerPitchByTransposeFactor(this, 0 - factor)]
    ELSE [threw |-> FALSE, same |-> TRUE, pitch |-> this]

\* ------------------------------------------------------ enharmonic respelling
getNextFundamentalNote(fundamental) ==
    EnumAt(JsMod(IndexOf(fundamental) + 1, Len(pitchEnumValues)))

getPreviousFundamentalNote(fundamental) ==
    LET i == IndexOf(fundamental)
    IN  IF i > 0 THEN EnumAt(i - 1) ELSE EnumAt(Len(pitchEnumValues) - 1)

\* The accidental DoEnharmonicChange derives for the new letter.
RespellAccidental(this, newNote) ==
    AccidentalFromHalfTones(
        NumPlus(this.halfTone,
                NumTimes(NumTimes(NumPlus(newNote, (this.octave + octXmlDiff) * 12), Scale), 0 - 1)))

\* DoEnharmonicChange that also respells a NATURAL as if it were a SHARP.
DoEnharmonicChangeNaturalAsSharp(this) ==
    IF this.accidental \in {"FLAT", "DOUBLEFLAT"}
    THEN LET n == getPreviousFundamentalNote(this.fundamentalNote)
         IN  [this EXCEPT !.fundamentalNote = n, !.accidental = RespellAccidental(this, n)]
    ELSE IF this.accidental \in {"SHARP", "DOUBLESHARP", "NATURAL"}
    THEN LET n == getNextFundamentalNote(this.fundamentalNote)
         IN  [this EXCEPT !.fundamentalNote = n, !.accidental = RespellAccidental(this, n)]
    ELSE this

\* DoEnharmonicChange(): the fields of this object after the call.
DoEnharmonicChange(this) ==
    IF this.accidental \in {"FLAT", "DOUBLEFLAT"}
    THEN LET n == getPreviousFundamentalNote(this.fundamentalNote)
         IN  [this EXCEPT !.fundamentalNote = n, !.accidental = RespellAccidental(this, n)]
    ELSE IF this.accidental \in {"SHARP", "DOUBLESHARP"}
    THEN LET n == getNextFundamentalNote(this.fundamentalNote)
         IN  [this EXCEPT !.fundamentalNote = n, !.accidental = RespellAccidental(this, n)]
    ELSE this

\* --------------------------------------------------------------- comparisons
\* OperatorEquals and OperatorNotEqual take references: objects are referred to
\* by their index in heap and NullRef is null.  The two ordering operators
\* read fields only and take the objects themselves.
OperatorEquals(p1, p2) ==
    IF p1 = NullRef \/ p2 = NullRef THEN FALSE
    ELSE /\ heap[p1].fundamentalNote = heap[p2].fundamentalNote
         /\ heap[p1].octave = heap[p2].octave
         /\ heap[p1].accidental = heap[p2].accidental

\* !(p1 === p2): identity of the two references.
OperatorNotEqual(p1, p2) == ~(p1 = p2)

\* An ordering that compares the sounding height instead of octave and letter.
OperatorFundamentalGreaterThanByHalfTone(p1, p2) ==
    NumGt(p1.halfTone, p2.halfTone)

OperatorFundamentalGreaterThan(p1, p2) ==
    IF p1.octave = p2.octave
    THEN NumGt(p1.fundamentalNote, p2.fundamentalNote)
    ELSE p1.octave > p2.octave

OperatorFundamentalLessThan(p1, p2) ==
    IF p1.octave = p2.octave
    THEN NumLt(p1.fundamentalNote, p2.fundamentalNote)
    ELSE p1.octave < p2.octave

\* ------------------------------------------------------------ state machine
\* heap: the live Pitch objects, addressed by index.
\* ret:  the last call: its name, receiver, argument, the receiver's fields
\*       before the call, whether it threw, and what it returned.
Call(op, this, arg, pre, threw, val) ==
    [op |-> op, this |-> this, arg |-> arg, pre |-> pre, threw |-> threw, val |-> val]

ConstructedPitches ==
    {NewPitch(n, o, a, x) : n \in NoteEnum, o \in Octaves, a \in AccidentalEnum, x \in Hints}

\* pitch = new Pitch(n, o, a, x)
Init ==
    /\ heap \in {<<p>> : p \in ConstructedPitches}
    /\ ret = Call("constructor", 1, 0, heap[1], FALSE, 0)

\* pitch.DoEnharmonicChange()
DoEnharmonicChangeCall ==
    /\ heap' = [heap EXCEPT ![1] = DoEnharmonicChange(heap[1])]
    /\ ret' = Call("DoEnharmonicChange", 1, 0, heap[1], FALSE, 0)

\* pitch = pitch.getTransposedPitch(factor); a throw leaves pitch as it was.
GetTransposedPitchCall ==
    \E factor \in Factors :
        LET r == getTransposedPitch(heap[1], factor)
        IN  /\ r.pitch.octave \in (0 - OctaveCap)..OctaveCap
            /\ heap' = [heap EXCEPT ![1] = r.pitch]
            /\ ret' = Call("getTransposedPitch", 1, factor, heap[1], r.threw, r.same)

\* pitch = Pitch.fromHalftone(halftone)
FromHalftoneCall ==
    \E halftone \in Halftones :
        /\ heap' = <<fromHalftone(halftone)>>
        /\ ret' = Call("fromHalftone", 1, halftone, fromHalftone(halftone), FALSE, 0)

\* Pitch.ceiling(halftone)
CeilingCall ==
    \E halftone \in RoundInputs :
        /\ ret' = Call("ceiling", 1, halftone, heap[1], FALSE, ceiling(halftone))
        /\ UNCHANGED heap

\* Pitch.floor(halftone)
FloorCall ==
    \E halftone \in RoundInputs :
        /\ ret' = Call("floor", 1, halftone, heap[1], FALSE, floor(halftone))
        /\ UNCHANGED heap

Next ==
    \/ DoEnharmonicChangeCall
    \/ GetTransposedPitchCall
    \/ FromHalftoneCall
    \/ CeilingCall
    \/ FloorCall

Spec == Init /\ [][Next]_vars

\* ------------------------------------------- two objects and the comparisons
InitCmp ==
    /\ heap \in {<<p, q>> : p, q \in {NewPitch(n, o, a, NoHint) :
                                      n \in NoteEnum, o \in Octaves, a \in CmpAccidentals}}
    /\ ret = Call("constructor", 1, 0, heap[1], FALSE, 0)

Refs == DOMAIN heap

OperatorEqualsCall ==
    \E p1 \in Refs, p2 \in Refs \cup {NullRef} :
        /\ ret' = Call("OperatorEquals", p1, p2, heap[p1], FALSE, OperatorEquals(p1, p2))
        /\ UNCHANGED heap

OperatorNotEqualCall ==
    \E p1 \in Refs, p2 \in Refs \cup {NullRef} :
        /\ ret' = Call("OperatorNotEqual", p1, p2, heap[p1], FALSE, OperatorNotEqual(p1, p2))
        /\ UNCHANGED heap

OperatorFundamentalGreaterThanCall ==
    \E p1 \in Refs, p2 \in Refs :
        /\ ret' = Call("OperatorFundamentalGreaterThan", p1, p2, heap[p1], FALSE,
                       OperatorFundamentalGreaterThan(heap[p1], heap[p2]))
        /\ UNCHANGED heap

OperatorFundamentalLessThanCall ==
    \E p1 \in Refs, p2 \in Refs :
        /\ ret' = Call("OperatorFundamentalLessThan", p1, p2, heap[p1], FALSE,
                       OperatorFundamentalLessThan(heap[p1], heap[p2]))
        /\ UNCHANGED heap

NextCmp ==
    \/ OperatorEqualsCall
    \/ OperatorNotEqualCall
    \/ OperatorFundamentalGreaterThanCall
    \/ OperatorFundamentalLessThanCall

SpecCmp == InitCmp /\ [][NextCmp]_vars

\* ------------------------------------------------------ the static functions
InitFn ==
    /\ heap \in {<<NewPitch(n, 1, a, NoHint)>> : n \in NoteEnum, a \in AccidentalEnum}
    /\ ret = Call("constructor", 1, 0, heap[1], FALSE, 0)

LineShiftFromNoteEnumCall ==
    \E noteEnum \in NoteEnum, lines \in Lines :
        /\ ret' = Call("lineShiftFromNoteEnum", 1, <<noteEnum, lines>>, heap[1], FALSE,
                       lineShiftFromNoteEnum(noteEnum, lines))
        /\ UNCHANGED heap

HalfTonesFromAccidentalCall ==
    \E accidental \in AccidentalEnum :
        /\ ret' = Call("HalfTonesFromAccidental", 1, accidental, heap[1], FALSE,
                       HalfTonesFromAccidental(accidental))
        /\ UNCHANGED heap

\* AccidentalFromHalfTones(HalfTonesFromAccidental(k)): the second call of the
\* round trip, on the delta the first call returned for k.
AccidentalFromHalfTonesCall ==
    /\ ret.op = "HalfTonesFromAccidental"
    /\ ret' = Call("AccidentalFromHalfTones", 1, <<ret.arg, ret.val>>, heap[1], FALSE,
                   AccidentalFromHalfTones(ret.val))
    /\ UNCHANGED heap

WrapAroundCheckCall ==
    \E value \in Values :
        /\ ret' = Call("WrapAroundCheck", 1, value, heap[1], FALSE, WrapAroundCheck(value, 12))
        /\ UNCHANGED heap

CalculateTransposedHalfToneCall ==
    \E transpose \in Transposes :
        /\ ret' = Call("CalculateTransposedHalfTone", 1, transpose, heap[1], FALSE,
                       CalculateTransposedHalfTone(heap[1], transpose))
        /\ UNCHANGED heap

NextFn ==
    \/ LineShiftFromNoteEnumCall
    \/ HalfTonesFromAccidentalCall
    \/ AccidentalFromHalfTonesCall
    \/ WrapAroundCheckCall
    \/ CalculateTransposedHalfToneCall

SpecFn == InitFn /\ [][NextFn]_vars

\* ===================================================================== claims
Spellable == {"SHARP", "FLAT", "DOUBLESHARP", "DOUBLEFLAT"}

TagKinds == {"SLASHQUARTERSHARP", "SLASHSHARP", "DOUBLESLASHFLAT", "SORI", "KORON"}

\* C1: after DoEnharmonicChange on a pitch with a letter in NoteEnum and an
\* accidental SHARP, FLAT, DOUBLESHARP or DOUBLEFLAT whose halfTone agreed with
\* its triple, the stored halfTone still equals fundamentalNote +
\* (octave + 3) * 12 + HalfTonesFromAccidental(accidental) of the new triple.
C1_HalfToneMatchesSpelling ==
    (/\ ret.op = "DoEnharmonicChange"
     /\ ret.pre.fundamentalNote \in NoteEnum
     /\ ret.pre.accidental \in Spellable
     /\ ret.pre.halfTone = (ret.pre.fundamentalNote + (ret.pre.octave + octXmlDiff) * 12) * Scale
                           + HalfTonesFromAccidental(ret.pre.accidental))
    => heap[1].halfTone = (heap[1].fundamentalNote + (heap[1].octave + octXmlDiff) * 12) * Scale
                          + HalfTonesFromAccidental(heap[1].accidental)

\* C2: every note name produced is one of C=0, D=2, E=4, F=5, G=7, A=9, B=11:
\* the letter of a constructed pitch, of the result of getTransposedPitch with
\* |factor| <= 12 or of DoEnharmonicChange on a pitch whose letter was in the
\* set, of fromHalftone(h), and the results of ceiling(h) and floor(h).
C2_NoteNamesClosed ==
    /\ ret.op = "constructor" => heap[1].fundamentalNote \in NoteEnum
    /\ (/\ ret.op = "getTransposedPitch"
        /\ ret.arg \in (0 - 12)..12
        /\ ret.pre.fundamentalNote \in NoteEnum) => heap[1].fundamentalNote \in NoteEnum
    /\ (/\ ret.op = "DoEnharmonicChange"
        /\ ret.pre.fundamentalNote \in NoteEnum) => heap[1].fundamentalNote \in NoteEnum
    /\ ret.op = "fromHalftone" => heap[1].fundamentalNote \in NoteEnum
    /\ ret.op \in {"ceiling", "floor"} => ret.val \in NoteEnum

\* C3: for 0 < |f| <= 12, getTransposedPitch(f) on a pitch with a letter of the
\* cycle returns a pitch whose letter is f diatonic steps away modulo 7 and
\* whose accidental is NONE.
C3_TransposeSteps ==
    (/\ ret.op = "getTransposedPitch"
     /\ ret.arg \in ((0 - 12)..12) \ {0}
     /\ ret.pre.fundamentalNote \in NoteEnum)
    => /\ ~ret.threw
       /\ heap[1].fundamentalNote \in NoteEnum
       /\ IndexOf(heap[1].fundamentalNote) = (IndexOf(ret.pre.fundamentalNote) + ret.arg) % 7
       /\ heap[1].accidental = "NONE"

\* C4: getTransposedPitch(factor) throws for every factor above 12 and every
\* factor below -12.
C4_FailsAboveTwelve ==
    (/\ ret.op = "getTransposedPitch"
     /\ (ret.arg > 12 \/ ret.arg < 0 - 12))
    => ret.threw

\* C5: lineShiftFromNoteEnum(n, lines), n at index i of the cycle, returns the
\* letter at index (i + lines) mod 7 and the octave shift floor((i + lines) / 7).
C5_LineShift ==
    ret.op = "lineShiftFromNoteEnum"
    => ret.val = <<EnumAt((IndexOf(ret.arg[1]) + ret.arg[2]) % 7),
                   (IndexOf(ret.arg[1]) + ret.arg[2]) \div 7>>

\* C6 as stated: for each of the 13 kinds that are not tag kinds,
\* AccidentalFromHalfTones(HalfTonesFromAccidental(k)) = k.
C6_RoundTripThirteen ==
    (ret.op = "AccidentalFromHalfTones" /\ ret.arg[1] \notin TagKinds)
    => ret.val = ret.arg[1]

\* C6 (amended): the round trip returns k for the 11 kinds that are neither a
\* tag kind nor NATURAL nor SLASHFLAT; NATURAL comes back as NONE and
\* SLASHFLAT as QUARTERTONEFLAT.
C6_RoundTripEleven ==
    ret.op = "AccidentalFromHalfTones"
    => /\ ret.arg[1] \notin (TagKinds \cup {"NATURAL", "SLASHFLAT"}) => ret.val = ret.arg[1]
       /\ ret.arg[1] = "NATURAL" => ret.val = "NONE"
       /\ ret.arg[1] = "SLASHFLAT" => ret.val = "QUARTERTONEFLAT"

C6_Witness ==
    /\ ret.op = "AccidentalFromHalfTones"
    /\ ret.arg = <<"THREEQUARTERSSHARP", 15000>>
    /\ ret.val = "THREEQUARTERSSHARP"

\* C7: the ordering is the strict lexicographic order on (octave, letter
\* value) and does not look at accidentals: greater-than holds iff the octave
\* is greater, or equal with a greater letter value; less-than of (p, q) is
\* greater-than of (q, p); exactly one of greater, less, same octave and
\* letter holds; and the result is the same for the pitches constructed with
\* any other accidental kind in place of p's or of q's.
C7_FundamentalOrder ==
    LET p == heap[ret.this]
        q == heap[ret.arg]
        greater == \/ p.octave > q.octave
                   \/ p.octave = q.octave /\ p.fundamentalNote > q.fundamentalNote
        less == \/ q.octave > p.octave
                \/ q.octave = p.octave /\ q.fundamentalNote > p.fundamentalNote
        same == p.octave = q.octave /\ p.fundamentalNote = q.fundamentalNote
        With(r, a) == NewPitch(r.fundamentalNote, r.octave, a, r.accidentalXml)
    IN  /\ ret.op = "OperatorFundamentalGreaterThan"
           => /\ ret.val = greater
              /\ Cardinality({b \in {"g", "l", "s"} :
                     \/ b = "g" /\ ret.val
                     \/ b = "l" /\ OperatorFundamentalLessThan(p, q)
                     \/ b = "s" /\ same}) = 1
              /\ \A a \in AccidentalEnum :
                     /\ OperatorFundamentalGreaterThan(With(p, a), q) = ret.val
                     /\ OperatorFundamentalGreaterThan(p, With(q, a)) = ret.val
        /\ ret.op = "OperatorFundamentalLessThan"
           => /\ ret.val = less
              /\ ret.val = OperatorFundamentalGreaterThan(q, p)
              /\ Cardinality({b \in {"g", "l", "s"} :
                     \/ b = "g" /\ OperatorFundamentalGreaterThan(p, q)
                     \/ b = "l" /\ ret.val
                     \/ b = "s" /\ same}) = 1
              /\ \A a \in AccidentalEnum :
                     /\ OperatorFundamentalLessThan(With(p, a), q) = ret.val
                     /\ OperatorFundamentalLessThan(p, With(q, a)) = ret.val

\* Greater by letter although lower in sounding height: D double-flat above
\* C sharp of the same octave.
C7_Witness ==
    /\ ret.op = "OperatorFundamentalGreaterThan"
    /\ ret.val
    /\ heap[ret.this].octave = heap[ret.arg].octave
    /\ heap[ret.this].halfTone < heap[ret.arg].halfTone

\* C8: DoEnharmonicChange on a pitch whose accidental is not SHARP, FLAT,
\* DOUBLESHARP or DOUBLEFLAT leaves fundamentalNote, octave, accidental,
\* accidentalXml, halfTone and frequency unchanged.
C8_NoOpOtherAccidentals ==
    (ret.op = "DoEnharmonicChange" /\ ret.pre.accidental \notin Spellable)
    => /\ heap[1].fundamentalNote = ret.pre.fundamentalNote
       /\ heap[1].octave = ret.pre.octave
       /\ heap[1].accidental = ret.pre.accidental
       /\ heap[1].accidentalXml = ret.pre.accidentalXml
       /\ heap[1].halfTone = ret.pre.halfTone
       /\ heap[1].frequency = ret.pre.frequency

C8_Witness ==
    /\ ret.op = "DoEnharmonicChange"
    /\ ret.pre.accidental = "NATURAL"
    /\ ret.pre.accidentalXml = "sharp"
    /\ heap[1] = ret.pre

\* C9: WrapAroundCheck(value, 12) returns (halftone, overflow) with
\* 0 <= halftone < 12 and value = halftone + 12 * overflow, -13 giving (11, -2)
\* and 25 giving (1, 2); CalculateTransposedHalfTone(pitch, transpose) returns
\* that decomposition of fundamentalNote + accidental delta + transpose.
C9_WrapAround ==
    /\ ret.op = "WrapAroundCheck"
       => /\ ret.val.halftone >= 0
          /\ ret.val.halftone < 12
          /\ ret.arg = ret.val.halftone + 12 * ret.val.overflow
          /\ ret.arg = 0 - 13 => ret.val = [halftone |-> 11, overflow |-> 0 - 2]
          /\ ret.arg = 25 => ret.val = [halftone |-> 1, overflow |-> 2]
    /\ ret.op = "CalculateTransposedHalfTone"
       => /\ ret.val.halftone >= 0
          /\ ret.val.halftone < 12 * Scale
          /\ (ret.pre.fundamentalNote + ret.arg) * Scale
                 + HalfTonesFromAccidental(ret.pre.accidental)
             = ret.val.halftone + 12 * Scale * ret.val.overflow

C9_Witness ==
    /\ ret.op = "WrapAroundCheck"
    /\ ret.arg = 0 - 13
    /\ ret.val = [halftone |-> 11, overflow |-> 0 - 2]

\* C10: p.OperatorNotEqual(q) holds iff p.OperatorEquals(q) does not, also for
\* two distinct objects that carry the same triple.
C10_NotEqualNegatesEquals ==
    ret.op = "OperatorNotEqual" => ret.val = ~OperatorEquals(ret.this, ret.arg)

\* C11: for every integer h, negative ones included, fromHalftone(h) returns a
\* pitch whose halfTone is h and whose octave is floor(h / 12) - 3, with
\* accidental NONE on the matching letter when h mod 12 is a diatonic offset
\* and accidental SHARP on the letter one semitone below otherwise.
C11_FromHalftone ==
    ret.op = "fromHalftone"
    => /\ heap[1].halfTone = ret.arg * Scale
       /\ heap[1].octave = (ret.arg \div 12) - octXmlDiff
       /\ (ret.arg % 12) \in NoteEnum
          => /\ heap[1].fundamentalNote = ret.arg % 12
             /\ heap[1].accidental = "NONE"
       /\ (ret.arg % 12) \notin NoteEnum
          => /\ heap[1].fundamentalNote = (ret.arg % 12) - 1
             /\ heap[1].accidental = "SHARP"

====
